---- MODULE Spec2Model ----
(***************************************************************************)
(* A model of src/dashboard.py: the Streamlit script that queries the      *)
(* apartment-trade API (fetch_data), keeps the credential and the query    *)
(* parameters in the session state, and normalizes and renders the table.  *)
(*                                                                         *)
(* Text is modelled as a sequence of one-character strings, so that        *)
(* strip, replace, zfill, int() and to_numeric are computed, not assumed.  *)
(* The Korean column names of the source are written romanized:            *)
(*   kr_apateu = apartment, kr_georaegeumaek = deal amount,                *)
(*   kr_jeonyongmyeonjeok = exclusive-use area, kr_beopjeongdong = legal   *)
(*   dong, kr_cheung = floor, kr_il = day, kr_danjimyeong = the tag        *)
(*   "complex name"; the derived columns are kept as separate fields.      *)
(***************************************************************************)
EXTENDS Integers, Sequences, FiniteSets, TLC

\* F(x), with x evaluated once
Apply(F(_), x) == CHOOSE v \in {F(y) : y \in {x}} : TRUE

\* ------------------------------------------------------------ text values

\* Element.text of an element without text, and the missing value of pandas.
NoneText == <<"<None>">>
NaN == <<"<NaN>">>
\* root.find(...) found no such element.
NoElem == <<"<absent>">>

T_nan == <<"n", "a", "n">>
T_None == <<"N", "o", "n", "e">>
T_dash == <<"-">>
T_zero == <<"0">>

DigitChars == <<"0", "1", "2", "3", "4", "5", "6", "7", "8", "9">>
Digits == {DigitChars[i] : i \in 1..10}
DigitVal(c) == (CHOOSE i \in 1..10 : DigitChars[i] = c) - 1

IsSpace(c) == c \in {" ", "\t", "\n"}

RECURSIVE lstrip(_)
lstrip(s) == IF s # <<>> /\ IsSpace(Head(s)) THEN lstrip(Tail(s)) ELSE s

RECURSIVE rstrip(_)
rstrip(s) ==
  IF s # <<>> /\ IsSpace(s[Len(s)]) THEN rstrip(SubSeq(s, 1, Len(s) - 1)) ELSE s

\* str.strip()
strip(s) == rstrip(lstrip(s))

\* str.replace(',', '')
RemoveCommas(s) == SelectSeq(s, LAMBDA c : c # ",")

RECURSIVE DigitsValue(_)
DigitsValue(s) ==
  IF s = <<>> THEN 0 ELSE 10 * DigitsValue(SubSeq(s, 1, Len(s) - 1)) + DigitVal(s[Len(s)])

HasSign(s) == s # <<>> /\ Head(s) \in {"+", "-"}
Unsigned(s) == IF HasSign(s) THEN Tail(s) ELSE s

\* int(str): surrounding whitespace, an optional sign, digits with single
\* underscores between them.
IntBody(s) ==
  /\ s # <<>>
  /\ \A i \in 1..Len(s) : s[i] \in Digits \cup {"_"}
  /\ s[1] # "_" /\ s[Len(s)] # "_"
  /\ \A i \in 1..(Len(s) - 1) : ~(s[i] = "_" /\ s[i + 1] = "_")

IntParses(s) == IntBody(Unsigned(strip(s)))

IntValue(s) ==
  LET t == strip(s)
      v == DigitsValue(SelectSeq(Unsigned(t), LAMBDA c : c # "_"))
  IN IF HasSign(t) /\ Head(t) = "-" THEN 0 - v ELSE v

\* Series.astype(str): a missing value becomes the text 'nan'.
AsStr(v) == IF v = NaN THEN T_nan ELSE v

\* Series.str.zfill(2): pandas pads on the left with '0' up to the width.
zfill2(s) == IF Len(s) >= 2 THEN s ELSE IF Len(s) = 1 THEN <<"0">> \o s ELSE <<"0", "0">>

\* pd.to_numeric(..., errors='coerce') on a text: an optional sign, digits with
\* at most one decimal point and at least one digit; anything else is coerced
\* to NaN.  The value is the rational num / den.
DotCount(s) == Len(SelectSeq(s, LAMBDA c : c = "."))
FloatBody(s) ==
  /\ \A i \in 1..Len(s) : s[i] \in Digits \cup {"."}
  /\ DotCount(s) <= 1
  /\ \E i \in 1..Len(s) : s[i] \in Digits

FloatParses(s) == s # NaN /\ FloatBody(Unsigned(strip(s)))

RECURSIVE Pow10(_)
Pow10(n) == IF n = 0 THEN 1 ELSE 10 * Pow10(n - 1)

FracDigits(s) ==
  IF DotCount(s) = 0 THEN 0
  ELSE Len(s) - (CHOOSE i \in 1..Len(s) : s[i] = ".")

FloatValue(s) ==
  LET t == strip(s)
      u == Unsigned(t)
      v == DigitsValue(SelectSeq(u, LAMBDA c : c # "."))
  IN [num |-> IF HasSign(t) /\ Head(t) = "-" THEN 0 - v ELSE v,
      den |-> Pow10(FracDigits(u))]

Zero == [num |-> 0, den |-> 1]

\* pd.to_numeric(col, errors='coerce').fillna(0)
ToNumericFill0(v) == IF FloatParses(v) THEN FloatValue(v) ELSE Zero

\* ------------------------------------------------------------ fetch_data

\* A result of fetch_data: a str (an error text), None, or a DataFrame.  An
\* error text is kept as its label and the two values formatted into it.
NoDF == [cols |-> <<>>, rows |-> <<>>]
StrResult(label, msg, code) ==
  [type |-> "str", label |-> label, msg |-> msg, code |-> code, df |-> NoDF]
NoneResult == [type |-> "None", label |-> "", msg |-> <<>>, code |-> <<>>, df |-> NoDF]
DFResult(df) == [type |-> "df", label |-> "", msg |-> <<>>, code |-> <<>>, df |-> df]

\* except Exception as e: return f"<communication error>: {e}"
CommError(e) == StrResult("comm_error", <<e>>, <<>>)

\* f"{x}" of a text or of None
Fmt(t) == IF t = NoneText THEN T_None ELSE t

\* row[child.tag] = child.text.strip(), for the children whose text is truthy;
\* a dict keeps the position of a key that is assigned again.
DictSet(row, tag, val) ==
  IF \E i \in 1..Len(row) : row[i].tag = tag
    THEN [i \in 1..Len(row) |-> IF row[i].tag = tag THEN [tag |-> tag, val |-> val] ELSE row[i]]
    ELSE Append(row, [tag |-> tag, val |-> val])

RECURSIVE RowOf(_)
RowOf(item) ==
  IF item = <<>> THEN <<>>
  ELSE LET child == item[Len(item)]
           row == RowOf(SubSeq(item, 1, Len(item) - 1))
       IN IF child.text # NoneText /\ child.text # <<>>
            THEN DictSet(row, child.tag, strip(child.text))
            ELSE row

DictHas(row, tag) == \E i \in 1..Len(row) : row[i].tag = tag
DictGet(row, tag) == row[CHOOSE i \in 1..Len(row) : row[i].tag = tag].val

\* The columns of pd.DataFrame(list of dicts): the keys in the order of their
\* first appearance.
RECURSIVE AddKeys(_, _)
AddKeys(cols, row) ==
  IF row = <<>> THEN cols
  ELSE LET t == Head(row).tag
       IN AddKeys(IF \E i \in 1..Len(cols) : cols[i] = t THEN cols ELSE Append(cols, t),
                  Tail(row))

RECURSIVE ColumnsOf(_)
ColumnsOf(data) ==
  IF data = <<>> THEN <<>>
  ELSE AddKeys(ColumnsOf(SubSeq(data, 1, Len(data) - 1)), data[Len(data)])

\* pd.DataFrame(data): a key a row lacks is a missing value in that row.
DataFrame(data) ==
  LET cols == ColumnsOf(data)
  IN [cols |-> cols,
      rows |-> [r \in 1..Len(data) |->
                 [c \in 1..Len(cols) |->
                    IF DictHas(data[r], cols[c]) THEN DictGet(data[r], cols[c]) ELSE NaN]]]

SuccessCodes == {<<"0", "0">>, <<"0", "0", "0">>}

\* A response is what requests.get and ElementTree give: the call raised, the
\* body is no XML, or a document seen through find('.//resultCode'),
\* find('.//resultMsg') and findall('.//item').
\* Lines 118-130: None when there is no item, else the table of the items.
ItemsResult_NoEmptyCheck(items) ==
  DFResult(DataFrame([i \in 1..Len(items) |-> RowOf(items[i])]))

ItemsResult(items) ==
  IF items = <<>> THEN NoneResult
  ELSE DFResult(DataFrame([i \in 1..Len(items) |-> RowOf(items[i])]))

fetch_data(api_key, lawd_cd, deal_ymd, response) ==
  IF response.kind = "raise" THEN CommError("RequestException")
  ELSE IF response.kind = "notxml" THEN StrResult("not_xml", response.body, <<>>)
  ELSE LET header_code == response.resultCode
           code_val == strip(header_code)
       IN IF header_code # NoElem /\ header_code = NoneText
            THEN CommError("AttributeError")
          ELSE IF header_code # NoElem /\ code_val \notin SuccessCodes
            THEN IF response.resultMsg = NoElem
                   THEN CommError("AttributeError")
                   ELSE StrResult("API Error", Fmt(response.resultMsg), code_val)
          ELSE ItemsResult(response.items)

\* ------------------------------------------------------------ main flow

col_map(tag) ==
  CASE tag \in {"aptNm", "kr_danjimyeong"} -> "kr_apateu"
    [] tag \in {"dealAmount", "amount"} -> "kr_georaegeumaek"
    [] tag \in {"excluUseAr", "area"} -> "kr_jeonyongmyeonjeok"
    [] tag \in {"umdNm", "dong"} -> "kr_beopjeongdong"
    [] tag = "floor" -> "kr_cheung"
    [] tag \in {"dealDay", "day"} -> "kr_il"
    [] OTHER -> tag

\* df.rename(columns=col_map)
Rename(df) == [df EXCEPT !.cols = [i \in 1..Len(df.cols) |-> col_map(df.cols[i])]]

ExpectedCols ==
  <<"kr_apateu", "kr_georaegeumaek", "kr_jeonyongmyeonjeok", "kr_beopjeongdong",
    "kr_cheung", "kr_il">>

HasCol(df, col) == \E i \in 1..Len(df.cols) : df.cols[i] = col
ColCount(df, col) == Cardinality({i \in 1..Len(df.cols) : df.cols[i] = col})
ColIndex(df, col) == CHOOSE i \in 1..Len(df.cols) : df.cols[i] = col
\* df[col] of a column name that occurs once: a Series
Series(df, col) == [r \in 1..Len(df.rows) |-> df.rows[r][ColIndex(df, col)]]

DefaultOf(col) == IF col # "kr_georaegeumaek" THEN T_dash ELSE T_zero

\* if col not in df.columns: df[col] = "-" if col != <deal amount> else "0"
FillColumn(df, col) ==
  IF HasCol(df, col) THEN df
  ELSE [cols |-> Append(df.cols, col),
        rows |-> [r \in 1..Len(df.rows) |-> Append(df.rows[r], DefaultOf(col))]]

RECURSIVE FillColumns(_, _)
FillColumns(df, cols) ==
  IF cols = <<>> THEN df ELSE FillColumns(FillColumn(df, Head(cols)), Tail(cols))

\* 3.3058 square metres per pyeong, as the fraction PyeongNum / PyeongDen
PyeongNum == 33058
PyeongDen == 10000

AmountText(v) == RemoveCommas(AsStr(v))

\* <area> / 3.3058 and <price> / <pyeong>, as fractions; a float division by
\* zero raises nothing in pandas and yields inf or nan, kept here as den = 0.
Pyeong(a) == [num |-> a.num * PyeongDen, den |-> a.den * PyeongNum]
UnitPrice(price, py) == [num |-> price * py.den, den |-> py.num]

NoNorm ==
  [exc |-> "not_run", line |-> 0, df |-> NoDF, price |-> <<>>, area |-> <<>>,
   date |-> <<>>, pyeong |-> <<>>, unit |-> <<>>]
Raised(exc, line, df) == [NoNorm EXCEPT !.exc = exc, !.line = line, !.df = df]

\* Lines 177-182: the conversions, on the table with its columns renamed and
\* filled.  An exception raised here is not caught by the script: the run
\* stops at that line.
Convert(df, current_ymd) ==
  LET n == Len(df.rows)
      amount == Series(df, "kr_georaegeumaek")
      area == [r \in 1..n |-> ToNumericFill0(Series(df, "kr_jeonyongmyeonjeok")[r])]
      price == [r \in 1..n |-> IntValue(AmountText(amount[r]))]
      pyeong == [r \in 1..n |-> Pyeong(area[r])]
  IN IF ColCount(df, "kr_georaegeumaek") > 1 THEN Raised("AttributeError", 178, df)
     ELSE IF \E r \in 1..n : ~IntParses(AmountText(amount[r]))
       THEN Raised("ValueError", 178, df)
     ELSE IF ColCount(df, "kr_jeonyongmyeonjeok") > 1 THEN Raised("TypeError", 179, df)
     ELSE IF ColCount(df, "kr_il") > 1 THEN Raised("AttributeError", 180, df)
     ELSE [exc |-> "none", line |-> 0, df |-> df,
           price |-> price,
           area |-> area,
           date |-> [r \in 1..n |-> current_ymd \o zfill2(AsStr(Series(df, "kr_il")[r]))],
           pyeong |-> pyeong,
           unit |-> [r \in 1..n |-> UnitPrice(price[r], pyeong[r])]]

\* Lines 160-182: rename, fill the required columns, convert.
Normalize(result_df, current_ymd) ==
  LET Conv(df) == Convert(df, current_ymd)
  IN Apply(Conv, FillColumns(Rename(result_df), ExpectedCols))

\* ------------------------------------------------------- filter and render

\* The characters of the modelled texts in code-point order: Python compares
\* str values by code point.
CodeOrder ==
  <<"\t", "\n", " ", "+", ",", "-", ".", "0", "1", "2", "3", "4", "5", "6", "7", "8", "9",
    "A", "B", "C", "N", "_", "a", "e", "n", "o", "x">>
CodePoint(c) == CHOOSE i \in 1..Len(CodeOrder) : CodeOrder[i] = c

RECURSIVE TextLess(_, _)
TextLess(a, b) ==
  IF b = <<>> THEN FALSE
  ELSE IF a = <<>> THEN TRUE
  ELSE IF Head(a) = Head(b) THEN TextLess(Tail(a), Tail(b))
  ELSE CodePoint(Head(a)) < CodePoint(Head(b))

\* sorted(values) of distinct texts
RECURSIVE SortedTexts(_)
SortedTexts(S) ==
  IF S = {} THEN <<>>
  ELSE LET m == CHOOSE x \in S : \A y \in S \ {x} : TextLess(x, y)
       IN <<m>> \o SortedTexts(S \ {m})

\* the first option of the neighbourhood selectbox: show everything
ALL_DONG == <<"kr_jeonche_bogi">>

Values(series) == {series[r] : r \in 1..Len(series)}

\* dong_list = sorted(df[<legal dong>].unique()); dong_list.insert(0, <all>).
\* sorted() raises TypeError when a missing value (a float) meets a str.
DongSortRaises(df) ==
  LET vals == Values(Series(df, "kr_beopjeongdong"))
  IN NaN \in vals /\ Cardinality(vals) > 1

dong_list(df) ==
  LET vals == Values(Series(df, "kr_beopjeongdong"))
  IN <<ALL_DONG>> \o (IF NaN \in vals THEN <<NaN>> ELSE SortedTexts(vals))

\* the rows left by df[df[<legal dong>] == selected_dong]; a missing value
\* equals nothing, itself included
FilterRows(df, selected_dong) ==
  IF selected_dong = ALL_DONG THEN 1..Len(df.rows)
  ELSE {r \in 1..Len(df.rows) :
          /\ selected_dong # NaN
          /\ Series(df, "kr_beopjeongdong")[r] = selected_dong}

RECURSIVE SumOver(_, _)
SumOver(f, S) ==
  IF S = {} THEN 0
  ELSE LET r == CHOOSE x \in S : TRUE IN f[r] + SumOver(f, S \ {r})

MaxOver(f, S) == f[CHOOSE r \in S : \A q \in S : f[q] <= f[r]]

\* df[<apartment>].mode()[0], or "-" when only missing values are left
TopApt(df, rows) ==
  LET apt == Series(df, "kr_apateu")
      names == {apt[r] : r \in rows} \ {NaN}
      freq(x) == Cardinality({r \in rows : apt[r] = x})
      modes == {x \in names : \A y \in names : freq(y) <= freq(x)}
  IN IF names = {} THEN T_dash ELSE SortedTexts(modes)[1]

\* sort_values(<contract date>, ascending=False) of the shown rows: the dates
\* in the order of the table
RECURSIVE SortedDesc(_, _)
SortedDesc(date, rows) ==
  IF rows = {} THEN <<>>
  ELSE LET r == CHOOSE x \in rows : \A y \in rows : ~TextLess(date[x], date[y])
       IN <<date[r]>> \o SortedDesc(date, rows \ {r})

\* What a run of the script leaves on the page.
\*   state: prompt | need_key | error | no_data | exception | results | no_match
\*   shown: the elements rendered below the title
NoView ==
  [sum_price |-> 0, count |-> 0, max_price |-> 0, top_apt |-> <<>>,
   rows |-> {}, table |-> <<>>]
Page(state, shown) ==
  [state |-> state, shown |-> shown, code |-> NoneResult, exc |-> "none",
   options |-> <<>>, selected_dong |-> ALL_DONG, view |-> NoView]

\* Lines 187-239 on the normalized table nt, with the value the neighbourhood
\* selectbox returns.
Render(nt, selected_dong) ==
  LET df == nt.df
      rows == FilterRows(df, selected_dong)
      banner == IF selected_dong # ALL_DONG THEN "info_filtered" ELSE "success_all"
      base == [Page("results", {"sidebar_filter", banner})
                 EXCEPT !.options = dong_list(df), !.selected_dong = selected_dong]
      metrics == [NoView EXCEPT !.sum_price = SumOver(nt.price, rows),
                                !.count = Cardinality(rows),
                                !.max_price = MaxOver(nt.price, rows),
                                !.rows = rows]
  IN IF rows = {}
       THEN [base EXCEPT !.state = "no_match", !.shown = @ \cup {"warning_no_match"}]
     ELSE IF ColCount(df, "kr_apateu") > 1
       THEN [base EXCEPT !.state = "exception", !.exc = "KeyError",
                         !.shown = @ \cup {"metric_avg", "metric_max", "exception"},
                         !.view = metrics]
     ELSE [base EXCEPT !.shown = @ \cup {"metric_avg", "metric_max", "metric_top_apt",
                                          "chart", "table"},
                       !.view = [metrics EXCEPT !.top_apt = TopApt(df, rows),
                                                !.table = SortedDesc(nt.date, rows)]]

\* The value of the neighbourhood selectbox in this run: the widget keeps the
\* user's choice while its options are the same, and starts again at the
\* first option otherwise.
DongValue(options, widget) ==
  IF widget.options = options THEN widget.value ELSE ALL_DONG

\* Lines 184-239 on a table that lines 160-182 normalized without raising.
ShowTable(nt, widget) ==
  IF nt.exc # "none"
    THEN [Page("exception", {"exception"}) EXCEPT !.exc = nt.exc]
  ELSE IF ColCount(nt.df, "kr_beopjeongdong") > 1
    THEN [Page("exception", {"sidebar_filter_header", "exception"})
            EXCEPT !.exc = "AttributeError"]
  ELSE IF DongSortRaises(nt.df)
    THEN [Page("exception", {"sidebar_filter_header", "exception"})
            EXCEPT !.exc = "TypeError"]
  ELSE Render(nt, DongValue(dong_list(nt.df), widget))

\* result.empty: no column or no row
IsEmptyDF(df) == df.cols = <<>> \/ df.rows = <<>>

\* Lines 154-239: the normalized table (when the run gets there) and what is
\* shown for a result of fetch_data.
Show(result, current_ymd, widget) ==
  IF result.type = "str"
    THEN [norm |-> NoNorm, page |-> [Page("error", {"error", "code"}) EXCEPT !.code = result]]
  ELSE IF result.type = "None" \/ IsEmptyDF(result.df)
    THEN [norm |-> NoNorm, page |-> Page("no_data", {"info_no_data"})]
  ELSE LET Out(nt) == [norm |-> nt, page |-> ShowTable(nt, widget)]
       IN Apply(Out, Normalize(result.df, current_ymd))

\* ------------------------------------------------------------ the script

\* korea_regions, cut to two provinces: Ulsan with its first two districts
\* (Nam-gu, Jung-gu) and Busan with its first district (Haeundae-gu).
korea_regions ==
  [Ulsan |-> <<[name |-> "Nam-gu", code |-> "31140"], [name |-> "Jung-gu", code |-> "31110"]>>,
   Busan |-> <<[name |-> "Haeundae-gu", code |-> "26350"]>>]
si_do_list == <<"Ulsan", "Busan">>
gu_gun_list(si_do) == [i \in 1..Len(korea_regions[si_do]) |-> korea_regions[si_do][i].name]
Code(si_do, gu_gun) ==
  korea_regions[si_do][CHOOSE i \in 1..Len(korea_regions[si_do]) :
                         korea_regions[si_do][i].name = gu_gun].code
Elems(seq) == {seq[i] : i \in 1..Len(seq)}

\* The options of the year and month selectboxes that the model visits, and
\* the options they start at (index=1 and index=11).
Years == {<<"2", "0", "2", "4">>}
Months == {<<"1", "2">>, <<"0", "2">>}
DefaultYear == <<"2", "0", "2", "4">>
DefaultMonth == <<"1", "2">>

\* The credentials the user types.
Keys == {"K1", "K2"}

\* The most HTTP requests of a behaviour.
MaxRequests == 2

VARIABLES
  api_key_input,    \* what the credential text_input returned in the last run
  saved_api_key,    \* st.session_state['saved_api_key']
  search_clicked,   \* st.session_state.get('search_clicked')
  search_params,    \* st.session_state['search_params']
  selected_si_do,   \* the four sidebar selectboxes
  selected_gu_gun,
  year,
  month,
  dong_widget,      \* the neighbourhood selectbox, when the last run rendered it
  button,           \* what st.sidebar.button returned in the last run
  cache,            \* st.cache_data of fetch_data: arguments -> returned value
  requests,         \* the HTTP requests sent so far: arguments -> how many
  fetch,            \* the last run's call of fetch_data: none | hit | miss
  remote,           \* the responses the remote service may give
  norm,             \* the normalized table of the last run
  page              \* what the last run rendered

vars ==
  <<api_key_input, saved_api_key, search_clicked, search_params, selected_si_do,
    selected_gu_gun, year, month, dong_widget, button, cache, requests, fetch, remote,
    norm, page>>

NoParams == <<"", <<>>, "", "">>
NoWidget == [options |-> <<>>, value |-> ALL_DONG]
EmptyMap == [t \in {} |-> 0]

RECURSIVE Total(_)
Total(bag) ==
  IF DOMAIN bag = {} THEN 0
  ELSE LET t == CHOOSE x \in DOMAIN bag : TRUE
       IN bag[t] + Total([x \in DOMAIN bag \ {t} |-> bag[x]])

Put(map, k, v) == [x \in DOMAIN map \cup {k} |-> IF x = k THEN v ELSE map[x]]
CountOf(bag, k) == IF k \in DOMAIN bag THEN bag[k] ELSE 0

\* @st.cache_data: a call with arguments seen before returns the stored value
\* and does not run the function.
CacheHit_NotNone(args) == args \in DOMAIN cache /\ cache[args].type # "None"

CacheHit_Never(args) == FALSE

CacheHit(args) == args \in DOMAIN cache

\* Lines 60-61: an input that is not empty is saved.
SavedKey_Unguarded(input) == input

SavedKey(input) == IF input # "" THEN input ELSE saved_api_key

\* Lines 138-141: a press of the button stores the current selection.
StoredParams_EveryRun(pressed, current) == current

StoredParams(pressed, current) == IF pressed THEN current ELSE search_params

\* One run of the script, top to bottom, with the values its widgets return.
Run(input, si_do, gu_gun, y, m, pressed, widget) ==
  LET key == SavedKey(input)
      lawd_cd == Code(si_do, gu_gun)
      deal_ymd == y \o m
      clicked == pressed \/ search_clicked
      params == StoredParams(pressed, <<lawd_cd, deal_ymd, si_do, gu_gun>>)
      args == <<key, params[1], params[2]>>
      Finish(result) ==
        \E out \in {Show(result, params[2], widget)} :
          /\ page' = out.page
          /\ norm' = out.norm
          /\ dong_widget' = IF out.page.options # <<>>
                               THEN [options |-> out.page.options,
                                     value |-> out.page.selected_dong]
                               ELSE NoWidget
  IN /\ api_key_input' = input
     /\ saved_api_key' = key
     /\ selected_si_do' = si_do
     /\ selected_gu_gun' = gu_gun
     /\ year' = y
     /\ month' = m
     /\ button' = pressed
     /\ search_clicked' = clicked
     /\ search_params' = params
     /\ UNCHANGED remote
     /\ IF ~clicked
          THEN /\ page' = Page("prompt", {"info_prompt"})
               /\ norm' = NoNorm
               /\ dong_widget' = NoWidget
               /\ fetch' = "none"
               /\ UNCHANGED <<cache, requests>>
        ELSE IF key = ""
          THEN /\ page' = Page("need_key", {"error_need_key"})
               /\ norm' = NoNorm
               /\ dong_widget' = NoWidget
               /\ fetch' = "none"
               /\ UNCHANGED <<cache, requests>>
        ELSE IF CacheHit(args)
          THEN /\ Finish(cache[args])
               /\ fetch' = "hit"
               /\ UNCHANGED <<cache, requests>>
        ELSE /\ Total(requests) < MaxRequests
             /\ \E response \in remote :
                  LET result == fetch_data(args[1], args[2], args[3], response)
                  IN /\ requests' = Put(requests, args, CountOf(requests, args) + 1)
                     /\ cache' = Put(cache, args, result)
                     /\ fetch' = "miss"
                     /\ Finish(result)

\* The user acts on one widget, and the script runs again.
EditApiKey(k) ==
  /\ k # api_key_input
  /\ Run(k, selected_si_do, selected_gu_gun, year, month, FALSE, dong_widget)

SelectSiDo(si_do) ==
  /\ si_do # selected_si_do
  /\ Run(api_key_input, si_do, gu_gun_list(si_do)[1], year, month, FALSE, dong_widget)

SelectGuGun(gu_gun) ==
  /\ gu_gun # selected_gu_gun
  /\ Run(api_key_input, selected_si_do, gu_gun, year, month, FALSE, dong_widget)

\* the year and month selectboxes of the date step (lines 78-82)
SelectDate(y, m) ==
  /\ <<y, m>> # <<year, month>>
  /\ Run(api_key_input, selected_si_do, selected_gu_gun, y, m, FALSE, dong_widget)

ClickSearch ==
  Run(api_key_input, selected_si_do, selected_gu_gun, year, month, TRUE, dong_widget)

SelectDong(d) ==
  /\ d # dong_widget.value
  /\ Run(api_key_input, selected_si_do, selected_gu_gun, year, month, FALSE,
         [dong_widget EXCEPT !.value = d])

\* ------------------------------------------------------------ responses

Xml(code, msg, items) ==
  [kind |-> "xml", body |-> <<>>, resultCode |-> code, resultMsg |-> msg, items |-> items]
Raises == [kind |-> "raise", body |-> <<>>, resultCode |-> NoElem, resultMsg |-> NoElem,
           items |-> <<>>]
NotXml == [kind |-> "notxml", body |-> <<"x">>, resultCode |-> NoElem, resultMsg |-> NoElem,
           items |-> <<>>]

Child(tag, text) == [tag |-> tag, text |-> text]

\* An item in the first naming scheme with all six fields.
BaseItem ==
  <<Child("aptNm", <<"A">>), Child("dealAmount", <<"1", ",", "2", "0", "0">>),
    Child("excluUseAr", <<"8", "4", ".", "9">>), Child("umdNm", <<"B">>),
    Child("floor", <<"3">>), Child("dealDay", <<"5">>)>>

OtherTag(tag) ==
  CASE tag = "aptNm" -> "kr_danjimyeong"
    [] tag = "dealAmount" -> "amount"
    [] tag = "excluUseAr" -> "area"
    [] tag = "umdNm" -> "dong"
    [] tag = "dealDay" -> "day"
    [] OTHER -> tag

Without(item, i) == SubSeq(item, 1, i - 1) \o SubSeq(item, i + 1, Len(item))
WithText(item, i, text) == [item EXCEPT ![i].text = text]
WithOtherTag(item, i) == [item EXCEPT ![i].tag = OtherTag(@)]
WithBothTags(item, i) == Append(item, Child(OtherTag(item[i].tag), item[i].text))

\* The texts a field may carry besides the one of BaseItem.
OtherTexts(i) ==
  CASE i = 1 -> {}
    [] i = 2 -> {<<"x">>, <<"-", "5">>, NoneText}
    [] i = 3 -> {<<"0">>}
    [] i = 4 -> {<<"A">>}
    [] i = 5 -> {}
    [] i = 6 -> {<<"3", "2">>}

\* The items of the modelled responses: BaseItem, and BaseItem with one field
\* dropped, renamed to the other naming scheme, given under both names, or
\* carrying another text.
Items ==
  {BaseItem}
  \cup {Without(BaseItem, i) : i \in 1..6}
  \cup {WithOtherTag(BaseItem, i) : i \in {1, 2, 3, 4, 6}}
  \cup {WithBothTags(BaseItem, i) : i \in {1, 4}}
  \cup UNION {{WithText(BaseItem, i, t) : t \in OtherTexts(i)} : i \in 1..6}

\* The most items of a response.
MaxItems == 2

RECURSIVE ItemSeqs(_)
ItemSeqs(n) ==
  IF n = 0 THEN {<<>>}
  ELSE LET shorter == ItemSeqs(n - 1)
       IN shorter \cup {Append(q, it) : q \in {x \in shorter : Len(x) = n - 1}, it \in Items}

CodeTexts == {NoElem, NoneText, <<"0", "0">>, <<"0", "0", "0">>, <<" ", "0", "0">>, <<"9", "9">>}
MsgTexts == {NoElem, NoneText, <<"N", "o">>}

\* The responses of the load specification: every header with no item and
\* with one item, and the success header with every sequence of items.
LoadResponses ==
  {Raises, NotXml}
  \cup {Xml(c, m, its) : c \in CodeTexts, m \in MsgTexts, its \in {<<>>, <<BaseItem>>}}
  \cup {Xml(<<"0", "0">>, <<"N", "o">>, its) : its \in ItemSeqs(MaxItems)}

\* The responses of the session specification: one of each kind of outcome.
SessionResponses ==
  {Raises, Xml(<<"0", "0">>, <<"N", "o">>, <<>>), Xml(<<"0", "0">>, <<"N", "o">>, <<BaseItem>>)}

\* ------------------------------------------------------------ specifications

InitSession ==
  /\ api_key_input = ""
  /\ saved_api_key = ""
  /\ search_clicked = FALSE
  /\ search_params = NoParams
  /\ selected_si_do = si_do_list[1]
  /\ selected_gu_gun = gu_gun_list(si_do_list[1])[1]
  /\ year = DefaultYear
  /\ month = DefaultMonth
  /\ dong_widget = NoWidget
  /\ button = FALSE
  /\ cache = EmptyMap
  /\ requests = EmptyMap
  /\ fetch = "none"
  /\ norm = NoNorm
  /\ page = Page("prompt", {"info_prompt"})

Init == InitSession /\ remote = SessionResponses

Next ==
  \/ \E k \in Keys \cup {""} : EditApiKey(k)
  \/ \E si_do \in Elems(si_do_list) : SelectSiDo(si_do)
  \/ \E gu_gun \in Elems(gu_gun_list(selected_si_do)) : SelectGuGun(gu_gun)
  \/ \E y \in Years, m \in Months : SelectDate(y, m)
  \/ ClickSearch
  \/ \E d \in Elems(dong_widget.options) : SelectDong(d)

Spec == Init /\ [][Next]_vars

\* One load: the credential is entered, the remote service gives one
\* response, and the user queries and filters.
InitLoad ==
  /\ InitSession
  /\ \E r \in LoadResponses : remote = {r}

NextLoad ==
  \/ \E k \in {"K1"} : EditApiKey(k)
  \/ ClickSearch
  \/ \E d \in Elems(dong_widget.options) : SelectDong(d)

SpecLoad == InitLoad /\ [][NextLoad]_vars
\* ------------------------------------------------------------ claims

\* The arguments of the call of fetch_data in a run that gets to it.
Args == <<saved_api_key, search_params[1], search_params[2]>>
\* The last run called fetch_data.
Called == search_clicked /\ saved_api_key # ""

\* A response that parses as XML whose resultCode is outside the success set,
\* the element without text included.
NonSuccess(r) ==
  /\ r.kind = "xml"
  /\ r.resultCode # NoElem
  /\ (r.resultCode = NoneText \/ strip(r.resultCode) \notin SuccessCodes)

\* A response with a success status or with no status element.
Success(r) ==
  /\ r.kind = "xml"
  /\ \/ r.resultCode = NoElem
     \/ r.resultCode # NoneText /\ strip(r.resultCode) \in SuccessCodes

\* C1: for every response that parses as XML with a resultCode outside the
\* success set, fetch_data returns the API error carrying the server's
\* resultMsg text, never another failure, also when the resultMsg element or
\* the resultCode text is absent.
C1_ApiErrorForNonSuccess ==
  \A r \in remote : \A a \in DOMAIN cache :
    (Cardinality(remote) = 1 /\ NonSuccess(r)) =>
      /\ cache[a].type = "str"
      /\ cache[a].label = "API Error"
      /\ (r.resultMsg \notin {NoElem, NoneText} => cache[a].msg = r.resultMsg)

\* C2: for every response with a success status (or no status element) and no
\* item, fetch_data returns None and the run ends in the no-data state: no
\* error, no summary, chart or table, and no normalization.
C2_NoDataOutcome ==
  \A r \in remote :
    (Cardinality(remote) = 1 /\ Success(r) /\ r.items = <<>>) =>
      /\ \A a \in DOMAIN cache : cache[a] = NoneResult
      /\ Called => /\ page.state = "no_data"
                   /\ page.shown = {"info_no_data"}
                   /\ norm = NoNorm

C2_Witness ==
  /\ \E r \in remote : Cardinality(remote) = 1 /\ Success(r) /\ r.items = <<>>
                        /\ r.resultCode = NoElem
  /\ Called /\ fetch = "miss" /\ page.state = "no_data"

\* What is shown for a result of fetch_data.
Shows(pg, nt, result) ==
  CASE result.type = "str" -> pg.state = "error" /\ pg.code = result
    [] result.type = "None" -> pg.state = "no_data"
    [] OTHER -> pg.state \in {"results", "no_match"} /\ Len(nt.price) = Len(result.df.rows)

\* C3: at most one HTTP request is sent for each triple (credential, region
\* code, year-month): a later call of fetch_data with the same triple sends
\* no request, leaves the stored outcome as it is and shows that outcome, be
\* it a table, None or an error text.
C3_AtMostOneRequest ==
  /\ DOMAIN requests = DOMAIN cache
  /\ \A a \in DOMAIN requests : requests[a] = 1

C3_HitStep ==
  /\ \A a \in DOMAIN cache : a \in DOMAIN cache' /\ cache'[a] = cache[a]
  /\ (Called' /\ Args' \in DOMAIN cache) =>
       /\ requests' = requests
       /\ cache' = cache
       /\ Shows(page', norm', cache[Args'])

C3_CachedOnce == []C3_AtMostOneRequest /\ [][C3_HitStep]_vars

C3_Witness ==
  /\ fetch = "hit" /\ button
  /\ Total(requests) = 1
  /\ cache[Args].type = "None"

\* C4: as claimed: a request is sent only in a run where the query button was
\* pressed, and a failure is shown at once as an error.
C4_OnlyTheButtonSends ==
  fetch = "miss" => /\ button
                    /\ cache[Args].type = "str" => page.state = "error"

\* C4, amended: a run sends at most one request, and only when the button
\* was pressed in it or the credential field was given a new value that is
\* not empty; the failure of that request is shown at once as an error.
C4_SendStep ==
  requests' # requests =>
    /\ button' \/ (api_key_input' # api_key_input /\ api_key_input' # "")
    /\ Total(requests') = Total(requests) + 1
    /\ cache'[Args'].type = "str" => (page'.state = "error" /\ page'.code = cache'[Args'])

C4_NoAutomaticRetry == [][C4_SendStep]_vars

C4_Witness ==
  /\ fetch = "miss" /\ ~button
  /\ cache[Args].type = "str" /\ page.state = "error"

\* C9: once a credential is saved, the saved credential stays non-empty: a
\* run whose credential field is empty leaves it unchanged and only a
\* non-empty input replaces it; no request is sent with an empty credential.
C9_KeyStep ==
  /\ saved_api_key # "" => saved_api_key' # ""
  /\ api_key_input' = "" => saved_api_key' = saved_api_key
  /\ saved_api_key' # saved_api_key => saved_api_key' = api_key_input'

C9_SavedKeyStays ==
  [](\A a \in DOMAIN requests : a[1] # "") /\ [][C9_KeyStep]_vars

C9_Witness ==
  /\ api_key_input = "" /\ saved_api_key = "K2"
  /\ \E a \in DOMAIN requests : a[1] = "K1"
  /\ fetch = "hit"

\* The selection of the four selectboxes, as it is stored by the button.
Selection == <<Code(selected_si_do, selected_gu_gun), year \o month, selected_si_do,
               selected_gu_gun>>

\* C10: the stored query parameters change only in a run where the button is
\* pressed, to the selection of that run; the fetch and the page use the
\* stored parameters, not the selectors; the searched flag stays true.
C10_ParamsStep ==
  /\ ~button' => search_params' = search_params
  /\ button' => search_params' = Selection' /\ search_clicked'
  /\ search_clicked => search_clicked'
  /\ requests' # requests =>
       DOMAIN requests' = DOMAIN requests \cup {<<saved_api_key', search_params'[1],
                                                    search_params'[2]>>}

C10_DatesOfStoredMonth ==
  \A r \in 1..Len(norm.date) : SubSeq(norm.date[r], 1, 6) = search_params[2]

C10_StoredParams == []C10_DatesOfStoredMonth /\ [][C10_ParamsStep]_vars

C10_Witness ==
  /\ search_clicked /\ ~button
  /\ Selection[1] # search_params[1] /\ Selection[2] # search_params[2]
  /\ page.state = "results" /\ fetch = "hit"

\* A successful response with at least one item was loaded and the run got
\* to the normalization.
Loaded(r) ==
  /\ Cardinality(remote) = 1 /\ Success(r) /\ r.items # <<>>
  /\ norm.exc # "not_run"

\* The item carries the logical field of column col under one of its tags.
ItemHas(item, col) ==
  \E j \in 1..Len(RowOf(item)) : col_map(RowOf(item)[j].tag) = col

\* C5: every record of the normalized table has a value for each of the six
\* expected fields: a field absent from an item is replaced by the sentinel
\* ('0' for the deal amount, '-' for the others), also when other items of
\* the response carry it, so no missing value gets to the conversions.
C5_EveryRecordComplete ==
  \A r \in remote :
    Loaded(r) =>
      \A k \in 1..Len(norm.df.rows) : \A i \in 1..Len(norm.df.cols) :
        norm.df.cols[i] \in Elems(ExpectedCols) =>
          /\ norm.df.rows[k][i] # NaN
          /\ ~ItemHas(r.items[k], norm.df.cols[i]) =>
               norm.df.rows[k][i] = DefaultOf(norm.df.cols[i])

\* The other name of a tag that has two names.
SwapTag(tag) ==
  CASE tag = "kr_danjimyeong" -> "aptNm"
    [] tag = "amount" -> "dealAmount"
    [] tag = "area" -> "excluUseAr"
    [] tag = "dong" -> "umdNm"
    [] tag = "day" -> "dealDay"
    [] OTHER -> OtherTag(tag)

Swapped(r) ==
  [r EXCEPT !.items =
     [k \in 1..Len(r.items) |->
        [j \in 1..Len(r.items[k]) |->
           Child(SwapTag(r.items[k][j].tag), r.items[k][j].text)]]]

\* C6: a response gives the same normalized table as the same response with
\* every two-named tag under its other name, and each logical field is
\* exactly one column of the table whichever names the response uses.
C6_OneColumnPerField ==
  \A r \in remote :
    Loaded(r) =>
      /\ \A i \in 1..Len(ExpectedCols) : ColCount(norm.df, ExpectedCols[i]) = 1
      /\ norm = Normalize(fetch_data(Args[1], Args[2], Args[3], Swapped(r)).df, Args[3])

RECURSIVE Gcd(_, _)
Gcd(a, b) == IF b = 0 THEN a ELSE Gcd(b, a % b)
Abs(x) == IF x < 0 THEN 0 - x ELSE x
\* a fraction with a positive denominator in lowest terms
Lowest(f) ==
  LET g == Gcd(Abs(f.num), Abs(f.den))
      sgn == IF f.den < 0 THEN 0 - 1 ELSE 1
  IN [num |-> sgn * (f.num \div g), den |-> sgn * (f.den \div g)]

\* C7: the unit price is price / (area / 3.3058) for a positive area, and
\* the division is never made with a zero area.
C7_NoDivisionByZero ==
  norm.exc = "none" =>
    \A k \in 1..Len(norm.unit) :
      /\ norm.pyeong[k].num # 0
      /\ norm.area[k].num > 0 =>
           Lowest(norm.unit[k])
             = Lowest([num |-> norm.price[k] * norm.area[k].den * PyeongNum,
                       den |-> norm.area[k].num * PyeongDen])

LeapYear(y) == (y % 4 = 0 /\ y % 100 # 0) \/ y % 400 = 0
DaysIn(y, m) ==
  CASE m = 2 -> IF LeapYear(y) THEN 29 ELSE 28
    [] m \in {4, 6, 9, 11} -> 30
    [] OTHER -> 31

\* An 8-digit calendar date
ValidDate(t) ==
  /\ Len(t) = 8
  /\ \A i \in 1..8 : t[i] \in Digits
  /\ LET y == DigitsValue(SubSeq(t, 1, 4))
         m == DigitsValue(SubSeq(t, 5, 6))
         d == DigitsValue(SubSeq(t, 7, 8))
     IN m \in 1..12 /\ d \in 1..DaysIn(y, m)

DigitString(t) == t # <<>> /\ \A i \in 1..Len(t) : t[i] \in Digits

Results == {"metric_avg", "metric_max", "metric_top_apt", "chart", "table"}

\* C8: a value error is fatal for the whole load: when a summary metric, the
\* chart or the table is rendered, every deal amount of the load is a digit
\* string once the separators are stripped, every price is a non-negative
\* integer and every contract date is a valid 8-digit calendar date.
C8_ValueErrorsAreFatal ==
  (page.shown \cap Results # {}) =>
    \A k \in 1..Len(norm.df.rows) :
      /\ DigitString(AmountText(Series(norm.df, "kr_georaegeumaek")[k]))
      /\ norm.price[k] >= 0
      /\ ValidDate(norm.date[k])
====
